---- MODULE Spec2Model ----
(***************************************************************************)
(* Model of tap-appstore's AppStoreStream (src/tap_appstore/client.py):    *)
(* the incremental report loop of get_records, the TSV header/row parsing  *)
(* it does with StringIO and csv.DictReader, the enrichment and coercion   *)
(* of records, and the replication state written by update_stream_state.   *)
(*                                                                         *)
(* Text is a sequence of one-character strings.  A datetime is its         *)
(* proleptic Gregorian ordinal (datetime.toordinal()), midnight; the       *)
(* time of day of datetime.now() cannot change the outcome of the          *)
(* comparison with a midnight value and is left out.                       *)
(***************************************************************************)
EXTENDS Integers, Sequences, FiniteSets, TLC

\* ------------------------------------------------------------------ text

None == [t |-> "none"]
StrV(s) == [t |-> "str", s |-> s]
IntV(n) == [t |-> "int", n |-> n]
FloatV(m, e) == [t |-> "float", m |-> m, e |-> e]
ListV(l) == [t |-> "list", l |-> l]

Digits == <<"0", "1", "2", "3", "4", "5", "6", "7", "8", "9">>
IsDigit(c) == \E i \in 1..10 : Digits[i] = c
DigitVal(c) == (CHOOSE i \in 1..10 : Digits[i] = c) - 1
DigitChar(n) == Digits[n + 1]

Whitespace == {" ", "\t", "\n", "\r"}

Upper == <<"A", "B", "C", "D", "E", "F", "G", "H", "I", "J", "K", "L", "M",
           "N", "O", "P", "Q", "R", "S", "T", "U", "V", "W", "X", "Y", "Z">>
Lower == <<"a", "b", "c", "d", "e", "f", "g", "h", "i", "j", "k", "l", "m",
           "n", "o", "p", "q", "r", "s", "t", "u", "v", "w", "x", "y", "z">>

\* str.lower() on one character
LowerChar(c) ==
    IF \E i \in 1..26 : Upper[i] = c
    THEN Lower[CHOOSE i \in 1..26 : Upper[i] = c]
    ELSE c

\* str.lower()
StrLower(s) == [i \in 1..Len(s) |-> LowerChar(s[i])]

\* str.replace(a, b) for one-character a and b
StrReplace(s, a, b) == [i \in 1..Len(s) |-> IF s[i] = a THEN b ELSE s[i]]

RECURSIVE LStrip(_)
LStrip(s) ==
    IF s # <<>> /\ Head(s) \in Whitespace THEN LStrip(Tail(s)) ELSE s

RECURSIVE RStrip(_)
RStrip(s) ==
    IF s # <<>> /\ s[Len(s)] \in Whitespace
    THEN RStrip(SubSeq(s, 1, Len(s) - 1))
    ELSE s

\* str.strip()
Strip(s) == RStrip(LStrip(s))

\* index of the first occurrence of character c in s, 0 when there is none
RECURSIVE IndexOf(_, _, _)
IndexOf(s, c, i) ==
    IF i > Len(s) THEN 0
    ELSE IF s[i] = c THEN i
    ELSE IndexOf(s, c, i + 1)

\* str.split(sep) for a one-character separator: always at least one token
RECURSIVE Split(_, _)
Split(s, sep) ==
    LET i == IndexOf(s, sep, 1) IN
    IF i = 0 THEN <<s>>
    ELSE <<SubSeq(s, 1, i - 1)>> \o Split(SubSeq(s, i + 1, Len(s)), sep)

\* ------------------------------------------------------------- calendar

IsLeap(y) == y % 4 = 0 /\ (y % 100 # 0 \/ y % 400 = 0)

DaysInMonth(y, m) ==
    IF m = 2 THEN (IF IsLeap(y) THEN 29 ELSE 28)
    ELSE IF m \in {4, 6, 9, 11} THEN 30
    ELSE 31

DaysBeforeYear(y) ==
    LET p == y - 1 IN p * 365 + (p \div 4) - (p \div 100) + (p \div 400)

RECURSIVE DaysBeforeMonth(_, _)
DaysBeforeMonth(y, m) ==
    IF m = 1 THEN 0 ELSE DaysBeforeMonth(y, m - 1) + DaysInMonth(y, m - 1)

\* datetime(y, m, d).toordinal()
ToOrdinal(y, m, d) == DaysBeforeYear(y) + DaysBeforeMonth(y, m) + d

\* the year holding ordinal n
RECURSIVE YearOf(_, _)
YearOf(n, y) ==
    IF n > DaysBeforeYear(y + 1) THEN YearOf(n, y + 1)
    ELSE IF n <= DaysBeforeYear(y) THEN YearOf(n, y - 1)
    ELSE y

RECURSIVE MonthOf(_, _, _)
MonthOf(n, y, m) ==
    IF n > DaysBeforeYear(y) + DaysBeforeMonth(y, m) + DaysInMonth(y, m)
    THEN MonthOf(n, y, m + 1)
    ELSE m

\* datetime.fromordinal(n) as [y, m, d]
FromOrdinal(n) ==
    LET y == YearOf(n, (n \div 366) + 1)
        m == MonthOf(n, y, 1)
    IN [y |-> y, m |-> m, d |-> n - DaysBeforeYear(y) - DaysBeforeMonth(y, m)]

\* zero-padded decimal of width w
RECURSIVE ZeroPad(_, _)
ZeroPad(n, w) ==
    IF w = 0 THEN <<>> ELSE ZeroPad(n \div 10, w - 1) \o <<DigitChar(n % 10)>>

\* ------------------------------------------------- strptime and strftime

\* the formats of this repository: directives %Y, %m, %d and literal separators
FmtYmd == <<"%", "Y", "-", "%", "m", "-", "%", "d">>

ValueError == [t |-> "ValueError"]

\* an error of a type the code has no handler for, leaving the function
Raised(exc) == [t |-> "raised", exc |-> exc]
DateTime(n) == [t |-> "datetime", ord |-> n]

\* decimal value of a digit string
RECURSIVE DecVal(_)
DecVal(s) ==
    IF s = <<>> THEN 0
    ELSE DecVal(SubSeq(s, 1, Len(s) - 1)) * 10 + DigitVal(s[Len(s)])

AllDigits(s, k) == Len(s) >= k /\ \A i \in 1..k : IsDigit(s[i])

\* The alternatives of a directive's regular expression that match a prefix of
\* s, in the order the regular expression tries them, as <<value, length>>:
\*   %Y  \d\d\d\d
\*   %m  1[0-2]|0[1-9]|[1-9]
\*   %d  3[0-1]|[1-2]\d|0[1-9]|[1-9]| [1-9]
DirectiveAlts(dir, s) ==
    LET two == IF AllDigits(s, 2) THEN DecVal(SubSeq(s, 1, 2)) ELSE 0
        one == IF AllDigits(s, 1) THEN DigitVal(s[1]) ELSE 0
        pad == IF Len(s) >= 2 /\ s[1] = " " /\ IsDigit(s[2]) THEN DigitVal(s[2]) ELSE 0
    IN  IF dir = "Y"
        THEN (IF AllDigits(s, 4) THEN <<<<DecVal(SubSeq(s, 1, 4)), 4>>>> ELSE <<>>)
        ELSE IF dir = "m"
        THEN (IF two \in 1..12 THEN <<<<two, 2>>>> ELSE <<>>)
             \o (IF one \in 1..9 THEN <<<<one, 1>>>> ELSE <<>>)
        ELSE IF dir = "d"
        THEN (IF two \in 1..31 THEN <<<<two, 2>>>> ELSE <<>>)
             \o (IF one \in 1..9 THEN <<<<one, 1>>>> ELSE <<>>)
             \o (IF pad \in 1..9 THEN <<<<pad, 2>>>> ELSE <<>>)
        ELSE <<>>

PutField(acc, dir, v) ==
    IF dir = "Y" THEN [acc EXCEPT !.y = v]
    ELSE IF dir = "m" THEN [acc EXCEPT !.m = v]
    ELSE [acc EXCEPT !.d = v]

\* The matches of format fmt against a prefix of s, in the order the regular
\* expression finds them (first alternative first, backtracking later).
RECURSIVE ParsePaths(_, _, _)
RECURSIVE ParseAlts(_, _, _, _, _, _)
ParsePaths(s, fmt, acc) ==
    IF fmt = <<>> THEN <<[f |-> acc, rest |-> s]>>
    ELSE IF Head(fmt) = "%"
    THEN (IF Len(fmt) >= 2
          THEN ParseAlts(DirectiveAlts(fmt[2], s), 1, s, fmt, acc, fmt[2])
          ELSE <<>>)
    ELSE IF s # <<>> /\ Head(s) = Head(fmt)
    THEN ParsePaths(Tail(s), Tail(fmt), acc)
    ELSE <<>>
ParseAlts(alts, i, s, fmt, acc, dir) ==
    IF i > Len(alts) THEN <<>>
    ELSE ParsePaths(SubSeq(s, alts[i][2] + 1, Len(s)), SubSeq(fmt, 3, Len(fmt)),
                    PutField(acc, dir, alts[i][1]))
         \o ParseAlts(alts, i + 1, s, fmt, acc, dir)

\* the directives of a format, in order
RECURSIVE Directives(_)
Directives(fmt) ==
    IF Len(fmt) < 2 THEN <<>>
    ELSE IF Head(fmt) = "%" THEN <<fmt[2]>> \o Directives(SubSeq(fmt, 3, Len(fmt)))
    ELSE Directives(Tail(fmt))

\* a directive occurs twice: the regular expression of the format names a
\* group twice and does not compile
RepeatsDirective(fmt) ==
    LET ds == Directives(fmt) IN
    /\ \A i \in 1..Len(ds) : ds[i] \in {"Y", "m", "d"}
    /\ \E i, j \in 1..Len(ds) : i < j /\ ds[i] = ds[j]

\* datetime.strptime(s, fmt): a datetime, or ValueError when the format does
\* not match, when data remains after the match, or when the day is not one of
\* the month; re.error, which is no ValueError, when the format repeats a
\* directive
Strptime(s, fmt) ==
    LET ps == ParsePaths(s, fmt, [y |-> 1900, m |-> 1, d |-> 1]) IN
    IF RepeatsDirective(fmt) THEN Raised("re.error")
    ELSE IF ps = <<>> THEN ValueError
    ELSE IF ps[1].rest # <<>> THEN ValueError
    ELSE LET f == ps[1].f IN
         IF f.y < 1 \/ f.d > DaysInMonth(f.y, f.m) THEN ValueError
         ELSE DateTime(ToOrdinal(f.y, f.m, f.d))

\* date.strftime('%Y-%m-%d') of the datetime with ordinal n
StrftimeYmd(n) ==
    LET c == FromOrdinal(n) IN
    ZeroPad(c.y, 4) \o <<"-">> \o ZeroPad(c.m, 2) \o <<"-">> \o ZeroPad(c.d, 2)

\* datetime.isoformat() of a midnight datetime
IsoFormat(n) == StrftimeYmd(n) \o <<"T", "0", "0", ":", "0", "0", ":", "0", "0">>

\* --------------------------------------------------- payloads and parsing

\* StringIO(all_data): None gives an empty buffer
StringIO(all_data) == IF all_data.t = "none" THEN <<>> ELSE all_data.s

\* data_io.readline(): the text through the first line break
ReadLine(text) ==
    LET i == IndexOf(text, "\n", 1) IN
    IF i = 0 THEN text ELSE SubSeq(text, 1, i)

\* what readline() leaves in the buffer
AfterLine(text) ==
    LET i == IndexOf(text, "\n", 1) IN
    IF i = 0 THEN <<>> ELSE SubSeq(text, i + 1, Len(text))

\* the lines a file iterator hands to csv.reader, line breaks kept
RECURSIVE FileLines(_)
FileLines(text) ==
    IF text = <<>> THEN <<>>
    ELSE <<ReadLine(text)>> \o FileLines(AfterLine(text))

\* csv.reader(delimiter='\t') on one line of unquoted text: an empty line is
\* the empty list
CsvRow(line) ==
    LET body == IF line # <<>> /\ line[Len(line)] = "\n"
                THEN SubSeq(line, 1, Len(line) - 1) ELSE line
    IN IF body = <<>> THEN <<>> ELSE Split(body, "\t")

\* the rows csv.DictReader reads: it skips the rows that are empty lists
RECURSIVE DictReaderRows(_)
DictReaderRows(lines) ==
    IF lines = <<>> THEN <<>>
    ELSE LET row == CsvRow(Head(lines)) IN
         (IF row = <<>> THEN <<>> ELSE <<row>>) \o DictReaderRows(Tail(lines))

\* line 104: the field names of a header line
NormalizeCol(col) == StrLower(StrReplace(Strip(col), " ", "_"))
FieldNames(first_line) ==
    LET cols == Split(first_line, "\t") IN
    [i \in 1..Len(cols) |-> NormalizeCol(cols[i])]

\* csv.DictReader's restkey (None), the key of the fields beyond the header
RestKey == <<"None">>

Max(S) == CHOOSE x \in S : \A y \in S : y <= x

\* csv.DictReader.__next__: dict(zip(fieldnames, row)), then the surplus under
\* restkey or the missing fields as restval (None)
DictRow(fieldnames, row) ==
    LET lf == Len(fieldnames)
        lr == Len(row)
        keys == {fieldnames[i] : i \in 1..lf}
                \cup (IF lf < lr THEN {RestKey} ELSE {})
        last(k) == Max({i \in 1..lf : fieldnames[i] = k})
    IN [k \in keys |->
          IF k = RestKey
          THEN ListV(SubSeq(row, lf + 1, lr))
          ELSE IF last(k) <= lr THEN StrV(row[last(k)]) ELSE None]

\* record[key] = value
DictSet(record, key, value) ==
    [k \in (DOMAIN record) \cup {key} |-> IF k = key THEN value ELSE record[k]]

K_line_id ==
    <<"_", "l", "i", "n", "e", "_", "i", "d">>
K_time_extracted ==
    <<"_", "t", "i", "m", "e", "_", "e", "x", "t", "r", "a", "c", "t", "e",
      "d">>
K_api_report_date ==
    <<"_", "a", "p", "i", "_", "r", "e", "p", "o", "r", "t", "_", "d", "a",
      "t", "e">>

\* -------------------------------------------------------------- coercion

\* bool(value) of a record value or of a field collection
Truthy(v) ==
    IF v.t = "none" THEN FALSE
    ELSE IF v.t = "str" THEN v.s # <<>>
    ELSE IF v.t = "int" THEN v.n # 0
    ELSE IF v.t = "float" THEN v.m # 0
    ELSE IF v.t = "list" THEN v.l # <<>>
    ELSE IF v.t = "set" THEN v.v # {}
    ELSE IF v.t = "dict" THEN DOMAIN v.v # {}
    ELSE TRUE

Unsigned(s) == IF s # <<>> /\ Head(s) \in {"+", "-"} THEN Tail(s) ELSE s
Sign(s) == IF s # <<>> /\ Head(s) = "-" THEN -1 ELSE 1

\* a run of decimal digits, single underscores allowed between two digits
IsDigitRun(s) ==
    /\ s # <<>>
    /\ IsDigit(s[1])
    /\ IsDigit(s[Len(s)])
    /\ \A i \in 1..Len(s) : IsDigit(s[i]) \/ s[i] = "_"
    /\ \A i \in 1..(Len(s) - 1) : ~(s[i] = "_" /\ s[i + 1] = "_")

IsDigitChar(c) == IsDigit(c)
DigitsOf(s) == SelectSeq(s, IsDigitChar)

\* int(s) of a string: surrounding whitespace, an optional sign, decimal digits
PyInt(s) ==
    LET b == Strip(s)
        u == Unsigned(b)
    IN IF IsDigitRun(u)
       THEN IntV(Sign(b) * DecVal(DigitsOf(u)))
       ELSE ValueError

\* m * 10^e without trailing zeros in m
RECURSIVE NormFloat(_, _)
NormFloat(m, e) ==
    IF m = 0 THEN FloatV(0, 0)
    ELSE IF m % 10 = 0 THEN NormFloat(m \div 10, e + 1)
    ELSE FloatV(m, e)

\* float('inf'), float('nan') and their signed forms
FloatSpecial(kind, sign) == [t |-> "float", m |-> sign, e |-> 0, sp |-> kind]

\* float(s) of a string: surrounding whitespace, an optional sign, then inf,
\* infinity or nan, or digits with at most one decimal point and an optional
\* exponent; a finite value is kept as an exact decimal
PyFloat(s) ==
    LET b == Strip(s)
        u == Unsigned(b)
        lu == StrLower(u)
        ex == IndexOf(lu, "e", 1)
        mant == IF ex = 0 THEN u ELSE SubSeq(u, 1, ex - 1)
        expo == IF ex = 0 THEN <<>> ELSE SubSeq(u, ex + 1, Len(u))
        dot == IndexOf(mant, ".", 1)
        ip == IF dot = 0 THEN mant ELSE SubSeq(mant, 1, dot - 1)
        fp == IF dot = 0 THEN <<>> ELSE SubSeq(mant, dot + 1, Len(mant))
        fd == DigitsOf(fp)
    IN IF lu \in {<<"i", "n", "f">>, <<"i", "n", "f", "i", "n", "i", "t", "y">>}
       THEN FloatSpecial("inf", Sign(b))
       ELSE IF lu = <<"n", "a", "n">> THEN FloatSpecial("nan", Sign(b))
       ELSE IF /\ (ip \o fp) # <<>>
               /\ ip = <<>> \/ IsDigitRun(ip)
               /\ fp = <<>> \/ IsDigitRun(fp)
               /\ ex = 0 \/ IsDigitRun(Unsigned(expo))
       THEN NormFloat(Sign(b) * DecVal(DigitsOf(ip) \o fd),
                      (IF ex = 0 THEN 0
                       ELSE Sign(expo) * DecVal(DigitsOf(Unsigned(expo))))
                      - Len(fd))
       ELSE ValueError

TargetType(target_type, v) ==
    IF v.t # "str" THEN v
    ELSE IF target_type = "int" THEN PyInt(v.s)
    ELSE PyFloat(v.s)

\* convert_fields without the handler of ValueError: the error is the outcome
convert_fields_Unguarded(record, fields, target_type) ==
    [k \in DOMAIN record |->
       IF k \in fields /\ record[k].t # "none"
       THEN TargetType(target_type, record[k])
       ELSE record[k]]

\* lines 148-156
convert_fields(record, fields, target_type) ==
    [k \in DOMAIN record |->
       IF k \in fields /\ record[k].t # "none"
       THEN LET r == TargetType(target_type, record[k]) IN
            IF r.t = "ValueError" THEN None ELSE r
       ELSE record[k]]

\* convert_date that parses with the default format whatever format is given
convert_date_DefaultFormat(date_str, date_format) ==
    IF ~Truthy(date_str) THEN None
    ELSE LET b == Strip(date_str.s) IN
         IF b = <<>> THEN None
         ELSE LET r == Strptime(b, FmtYmd) IN
              IF r.t = "ValueError" THEN None
              ELSE IF r.t = "raised" THEN r
              ELSE StrV(IsoFormat(r.ord))

\* lines 127-146
convert_date(date_str, date_format) ==
    IF ~Truthy(date_str) THEN None
    ELSE LET b == Strip(date_str.s) IN
         IF b = <<>> THEN None
         ELSE LET r == Strptime(b, date_format) IN
              IF r.t = "ValueError" THEN None
              ELSE IF r.t = "raised" THEN r
              ELSE StrV(IsoFormat(r.ord))

\* lines 34-36: the field collections as __init__ leaves them; no stream
\* class of streams.py assigns them
float_fields == None
int_fields == None
date_fields == None

\* lines 59-72
process_record(record) ==
    LET r1 == IF Truthy(float_fields)
              THEN convert_fields(record, float_fields.v, "float") ELSE record
        r2 == IF Truthy(int_fields)
              THEN convert_fields(r1, int_fields.v, "int") ELSE r1
    IN IF Truthy(date_fields)
       THEN [k \in DOMAIN r2 |->
               IF k \in DOMAIN date_fields.v /\ Truthy(r2[k])
               THEN convert_date(r2[k], date_fields.v[k])
               ELSE r2[k]]
       ELSE r2

\* ------------------------------------------------------ inputs and bounds

\* the longest run, in report periods
MaxPeriods == 3

\* line 42: default_date
default_date ==
    <<"2", "0", "2", "4", "-", "0", "1", "-", "0", "1">>

\* values of config['start_date']: a date, and a timestamp of the
\* date-time form tap.py lines 44-48 declare
CfgDate ==
    <<"2", "0", "2", "4", "-", "0", "2", "-", "2", "8">>
CfgTimestamp ==
    <<"2", "0", "2", "4", "-", "0", "1", "-", "0", "1", "T", "0", "0", ":",
      "0", "0", ":", "0", "0", "Z">>
ConfigStartDates == {None, StrV(CfgDate), StrV(CfgTimestamp)}

\* report texts download_data can return (streams.py leaves the call to the
\* upstream API to the stream class)
TextSales ==
    <<"P", "r", "o", "v", "i", "d", "e", "r", "\t", "U", "n", "i", "t",
      "s", "\n", "A", "A", "P", "L", "\t", "5", "\n", "T", "o", "t", "a",
      "l", "_", "R", "o", "w", "s", "\t", "5", "\n">>
TextHeaderOnly ==
    <<"P", "r", "o", "v", "i", "d", "e", "r", "\t", "U", "n", "i", "t",
      "s", "\n">>
TextFooterOnly ==
    <<"P", "r", "o", "v", "i", "d", "e", "r", "\t", "U", "n", "i", "t",
      "s", "\n", "T", "o", "t", "a", "l", "_", "R", "o", "w", "s", "\t",
      "0", "\n">>
TextSubscriber ==
    <<"A", "p", "p", " ", "N", "a", "m", "e", "\t", "P", "r", "e", "-",
      "o", "r", "d", "e", "r", " ", "F", "l", "a", "g", "\n", "N", "e",
      "w", "s", "\t", " ", "x", "\n", "\n", "M", "a", "i", "l", "\n">>

\* what download_data returns: a report text, or None (lines 55-57)
Payloads ==
    {None, StrV(TextSales), StrV(TextHeaderOnly), StrV(TextFooterOnly),
     StrV(TextSubscriber)}

\* what an APIError raised by download_data reports
APIErrorKinds == {"no_data", "not_ready", "other"}

\* streams.py lines 23-52: the fields SalesReportStream declares as IntegerType
\* and NumberType
K_units ==
    <<"u", "n", "i", "t", "s">>
K_developer_proceeds ==
    <<"d", "e", "v", "e", "l", "o", "p", "e", "r", "_", "p", "r", "o", "c",
      "e", "e", "d", "s">>
K_customer_price ==
    <<"c", "u", "s", "t", "o", "m", "e", "r", "_", "p", "r", "i", "c", "e">>
\* streams.py line 70: the first field parse_report_line skips a line for
K_Provider ==
    <<"P", "r", "o", "v", "i", "d", "e", "r">>
skip_markers == {K_Provider}

IntegerFields == {K_units}
NumberFields == {K_developer_proceeds, K_customer_price}

\* ------------------------------------------------------------------ state

VARIABLES
    config,        \* config['start_date'], None when the key is absent
    now,           \* datetime.now() of the run
    stream_state,  \* stream_state['start_date'], None when the key is absent
    resume_state,  \* the stream_state the run started with
    pc,            \* where get_records stands
    start_date,    \* the date cursor of get_records
    date_limit,    \* line 91
    line_id,       \* line 92
    fieldnames,    \* line 104
    reader,        \* the rows csv.DictReader has still to hand out
    record,        \* the record of the row being yielded
    emitted,       \* the records handed to the caller, in order
    log,           \* the calls of download_data and update_stream_state, in order
    call           \* the last call of convert_date or convert_fields on its own

vars == <<config, now, stream_state, resume_state, pc, start_date, date_limit, line_id,
          fieldnames, reader, record, emitted, log, call>>

\* get_start_date that falls back to the default date when the configured
\* one does not parse
get_start_date_Fallback(cfg) ==
    LET start_date_str == IF cfg.t = "none" THEN default_date ELSE cfg.s
        r == Strptime(start_date_str, FmtYmd)
    IN IF r.t = "ValueError" THEN Strptime(default_date, FmtYmd) ELSE r

\* lines 42-49
get_start_date(cfg) ==
    LET start_date_str == IF cfg.t = "none" THEN default_date ELSE cfg.s
        r == Strptime(start_date_str, FmtYmd)
    IN IF r.t = "ValueError" THEN None ELSE r

\* lines 51-53
get_report_date(date) == StrftimeYmd(date)

\* increment_date returning its argument
increment_date_Same(date) == date

\* the date moved two days on
increment_date_TwoDays(date) == date + 2

\* the date moved one day back
increment_date_Back(date) == date - 1

\* lines 74-76
increment_date(date) == date + 1

\* line 80: the value update_stream_state stores
StateValue(date) == StrV(StrftimeYmd(date))

\* line 91: timedelta(days=2)
SafetyLagDays == 2

\* the first period of a run of the configuration, for drawing the clock
BaseDate(cfg) ==
    LET r == get_start_date(cfg) IN
    IF r.t = "none" THEN Strptime(default_date, FmtYmd).ord ELSE r.ord

\* start_date and date_limit before lines 85 and 91 assign them: no date
NoDate == 0

\* before any call of the conversion helpers on their own
NoCall == [fn |-> "none"]

Init ==
    /\ config \in ConfigStartDates
    /\ now \in {BaseDate(config) + k : k \in 1..(MaxPeriods + 1)}
    /\ stream_state \in {None} \cup
          {StateValue(d) : d \in BaseDate(config)..(now - SafetyLagDays)}
    /\ resume_state = stream_state
    /\ pc = "idle"
    /\ start_date = NoDate
    /\ date_limit = NoDate
    /\ line_id = 0
    /\ fieldnames = <<>>
    /\ reader = <<>>
    /\ record = None
    /\ emitted = <<>>
    /\ log = <<>>
    /\ call = NoCall

\* what a raised error reports
ErrorV(kind) == [t |-> "error", kind |-> kind]

DownloadCall(date, outcome, value) ==
    [op |-> "download_data", date |-> date, outcome |-> outcome, value |-> value]
UpdateCall(date) ==
    [op |-> "update_stream_state", date |-> date, outcome |-> "return",
     value |-> StateValue(date)]

\* lines 85-92: the start of a run
GetRecords ==
    /\ pc = "idle"
    /\ LET sd == get_start_date(config) IN
       IF ~(sd.t = "datetime")
       THEN /\ pc' = "done"
            /\ UNCHANGED <<start_date, date_limit, line_id>>
       ELSE /\ start_date' = sd.ord
            /\ date_limit' = now - SafetyLagDays
            /\ line_id' = 0
            /\ pc' = "while"
    /\ UNCHANGED <<call, config, now, stream_state, resume_state, fieldnames,
                   reader, record, emitted, log>>

\* the loop condition one day past the limit
HasMore_OneDayLate == start_date <= date_limit + 1

\* line 94: the loop condition
HasMore == start_date <= date_limit

\* the end of a period with the two statements in the other order: the state
\* is written, then the cursor is advanced
Advance_UpdateFirst(events) ==
    /\ stream_state' = StateValue(start_date)
    /\ log' = events \o <<UpdateCall(start_date)>>
    /\ start_date' = increment_date(start_date)

\* lines 123-124: the end of a period
Advance(events) ==
    LET next == increment_date(start_date) IN
    /\ start_date' = next
    /\ stream_state' = StateValue(next)
    /\ log' = events \o <<UpdateCall(next)>>

\* lines 94-106: download_data returns all_data; the header is read and the
\* reader is set up
DownloadData(all_data) ==
    /\ pc = "while"
    /\ HasMore
    /\ log' = Append(log, DownloadCall(start_date, "return", all_data))
    /\ LET data_io == StringIO(all_data)
           first_line == Strip(ReadLine(data_io))
       IN /\ fieldnames' = FieldNames(first_line)
          /\ reader' = DictReaderRows(FileLines(AfterLine(data_io)))
    /\ pc' = "reader"
    /\ UNCHANGED <<call, config, now, stream_state, resume_state, start_date,
                   date_limit, line_id, record, emitted>>

\* lines 98, 120-124: download_data raises APIError; it is logged and the
\* period ends
DownloadAPIError(kind) ==
    /\ pc = "while"
    /\ HasMore
    /\ Advance(Append(log, DownloadCall(start_date, "APIError", ErrorV(kind))))
    /\ UNCHANGED <<call, config, now, resume_state, pc, date_limit, line_id,
                   fieldnames, reader, record, emitted>>

\* an error that is no APIError handled as line 120 handles an APIError
DownloadError_Swallowed ==
    /\ pc = "while"
    /\ HasMore
    /\ Advance(Append(log, DownloadCall(start_date, "Exception", ErrorV("other"))))
    /\ UNCHANGED <<call, config, now, resume_state, pc, date_limit, line_id,
                   fieldnames, reader, record, emitted>>

\* line 98: download_data raises an error that is no APIError; it leaves
\* get_records
DownloadError ==
    /\ pc = "while"
    /\ HasMore
    /\ log' = Append(log, DownloadCall(start_date, "Exception", ErrorV("other")))
    /\ pc' = "raised"
    /\ UNCHANGED <<call, config, now, stream_state, resume_state, start_date,
                   date_limit, line_id, fieldnames, reader, record, emitted>>

\* what download_data returns when it hands on the body of a response undecoded
BytesV == [t |-> "bytes"]

\* lines 98-100: download_data returns bytes; StringIO(all_data) raises
\* TypeError, which is no APIError and leaves get_records
StringIOTypeError ==
    /\ pc = "while"
    /\ HasMore
    /\ log' = Append(log, DownloadCall(start_date, "TypeError", BytesV))
    /\ pc' = "raised"
    /\ UNCHANGED <<call, config, now, stream_state, resume_state, start_date,
                   date_limit, line_id, fieldnames, reader, record, emitted>>

\* line 111: datetime.utcnow().strftime('%Y-%m-%dT%H:%M:%SZ'), at the day's start
TimeExtracted == StrV(IsoFormat(now) \o <<"Z">>)

\* lines 108-116: the next row becomes a record, which is processed and yielded
ReadRow ==
    /\ pc = "reader"
    /\ reader # <<>>
    /\ line_id' = line_id + 1
    /\ LET r0 == DictRow(fieldnames, Head(reader))
           r1 == DictSet(r0, K_line_id, IntV(line_id + 1))
           r2 == DictSet(r1, K_time_extracted, TimeExtracted)
           r3 == DictSet(r2, K_api_report_date, StrV(get_report_date(start_date)))
           processed_record == process_record(r3)
       IN /\ record' = processed_record
          /\ emitted' = Append(emitted, processed_record)
    /\ reader' = Tail(reader)
    /\ pc' = "yielded"
    /\ UNCHANGED <<call, config, now, stream_state, resume_state, start_date,
                   date_limit, fieldnames, log>>

\* line 118: the record is yielded
YieldRecord ==
    /\ pc = "yielded"
    /\ emitted' = Append(emitted, record)
    /\ record' = None
    /\ pc' = "reader"
    /\ UNCHANGED <<call, config, now, stream_state, resume_state, start_date,
                   date_limit, line_id, fieldnames, reader, log>>

\* lines 108, 123-124: the reader is exhausted and the period ends
EndOfReport ==
    /\ pc = "reader"
    /\ reader = <<>>
    /\ Advance(log)
    /\ pc' = "while"
    /\ UNCHANGED <<call, config, now, resume_state, date_limit, line_id,
                   fieldnames, reader, record, emitted>>

\* line 94: the loop ends
LoopExit ==
    /\ pc = "while"
    /\ ~HasMore
    /\ pc' = "done"
    /\ UNCHANGED <<call, config, now, stream_state, resume_state, start_date,
                   date_limit, line_id, fieldnames, reader, record, emitted,
                   log>>

Next ==
    \/ GetRecords
    \/ \E all_data \in Payloads : DownloadData(all_data)
    \/ \E kind \in APIErrorKinds : DownloadAPIError(kind)
    \/ DownloadError
    \/ StringIOTypeError
    \/ ReadRow
    \/ YieldRecord
    \/ EndOfReport
    \/ LoopExit

Spec == Init /\ [][Next]_vars

\* the positions of a run: before the call, at the loop condition, between
\* rows, between the two yields of a row, returned, left by an error
Positions == {"idle", "while", "reader", "yielded", "done", "raised"}

\* the positions at which get_records has a step to take
Running == {"idle", "while", "reader", "yielded"}

\* get_records moves on from a position outside the loop condition: each
\* such step of Next changes the position
StepBetween ==
    /\ pc \in Running \ {"while"}
    /\ pc' \in Positions

\* get_records moves on from the loop condition: each such step of Next
\* changes the position, or is the handling of an APIError, which advances
\* the cursor
StepLoop ==
    /\ pc = "while"
    /\ pc' \in Positions
    /\ start_date' \in {start_date, increment_date(start_date)}

\* a run whose records are drained by the caller and whose download_data
\* calls return or raise: at every position of Running a step of Next can be
\* taken, and one is taken
SpecLive == Spec /\ WF_pc(StepBetween) /\ WF_<<pc, start_date>>(StepLoop)

\* ------------------------------------ the conversion helpers, called alone

\* date formats: the default of line 128, the day-first format of the tests,
\* those of streams.py lines 86 and 420, and one repeating a directive
FmtDmY ==
    <<"%", "d", "-", "%", "m", "-", "%", "Y">>
FmtMdYSlash ==
    <<"%", "m", "/", "%", "d", "/", "%", "Y">>
FmtDmYSlash ==
    <<"%", "d", "/", "%", "m", "/", "%", "Y">>
FmtDayTwice ==
    <<"%", "d", "-", "%", "d">>

WrittenFormats == {FmtYmd, FmtDmY, FmtMdYSlash, FmtDmYSlash}
DateFormats == WrittenFormats \cup {FmtDayTwice}

\* date strings: empty, whitespace only, not a date, a date of another
\* format, an impossible date, a date with trailing text, padded with spaces
DsEmpty ==
    <<>>
DsSpace ==
    <<" ">>
DsBlank ==
    <<" ", "\t", " ">>
DsInvalid ==
    <<"i", "n", "v", "a", "l", "i", "d", "-", "d", "a", "t", "e">>
DsNotADate ==
    <<"n", "o", "t", "-", "a", "-", "d", "a", "t", "e">>
DsIso ==
    <<"2", "0", "2", "4", "-", "0", "5", "-", "0", "1">>
DsDayFirst ==
    <<"0", "1", "-", "0", "5", "-", "2", "0", "2", "4">>
DsSlash ==
    <<"0", "5", "/", "0", "1", "/", "2", "0", "2", "4">>
DsFeb30 ==
    <<"2", "0", "2", "4", "-", "0", "2", "-", "3", "0">>
DsMonth13 ==
    <<"2", "0", "2", "4", "-", "1", "3", "-", "0", "1">>
DsTimestamp ==
    <<"2", "0", "2", "4", "-", "0", "5", "-", "0", "1", "T", "0", "0", ":",
      "0", "0", ":", "0", "0">>
DsPadded ==
    <<" ", "2", "0", "2", "4", "-", "0", "5", "-", "0", "1", " ">>
DsShort ==
    <<"1", "-", "5">>

DateStrings ==
    {None} \cup
    {StrV(s) : s \in {DsEmpty, DsSpace, DsBlank, DsInvalid, DsNotADate, DsIso,
                      DsDayFirst, DsSlash, DsFeb30, DsMonth13, DsTimestamp,
                      DsPadded, DsShort}}

Date(y, m, d) == [t |-> "date", y |-> y, m |-> m, d |-> d]

\* calendar dates: first and last days of months and years, leap days
CalendarDates ==
    {Date(2024, 5, 1), Date(2024, 2, 29),
     Date(2023, 12, 31), Date(2024, 1, 1),
     Date(2000, 2, 29), Date(1999, 3, 10),
     Date(2024, 10, 31), Date(2025, 11, 30),
     Date(987, 6, 5)}

\* the date written in a format, two digits for day and month, four for year
RECURSIVE WriteDate(_, _)
WriteDate(date, fmt) ==
    IF fmt = <<>> THEN <<>>
    ELSE IF Head(fmt) = "%" /\ Len(fmt) >= 2
    THEN (CASE fmt[2] = "Y" -> ZeroPad(date.y, 4)
            [] fmt[2] = "m" -> ZeroPad(date.m, 2)
            [] fmt[2] = "d" -> ZeroPad(date.d, 2)
            [] OTHER -> <<>>) \o WriteDate(date, SubSeq(fmt, 3, Len(fmt)))
    ELSE <<Head(fmt)>> \o WriteDate(date, Tail(fmt))

ConvertDateCall(date_str, date_format, date) ==
    [fn |-> "convert_date", date_str |-> date_str, date_format |-> date_format,
     date |-> date, result |-> convert_date(date_str, date_format)]

\* convert_date applied to a string and a format
CallConvertDate(date_str, date_format) ==
    /\ pc = "calls"
    /\ call' = ConvertDateCall(date_str, date_format, None)
    /\ UNCHANGED <<config, now, stream_state, resume_state, pc, start_date,
                   date_limit, line_id, fieldnames, reader, record, emitted, log>>

\* convert_date applied to a calendar date written in a format
CallConvertWritten(date, date_format) ==
    /\ pc = "calls"
    /\ call' = ConvertDateCall(StrV(WriteDate(date, date_format)), date_format, date)
    /\ UNCHANGED <<config, now, stream_state, resume_state, pc, start_date,
                   date_limit, line_id, fieldnames, reader, record, emitted, log>>

\* field names and values of records handed to convert_fields: those of the
\* tests, and strings int and float treat differently
K_field1 ==
    <<"f", "i", "e", "l", "d", "1">>
K_field2 ==
    <<"f", "i", "e", "l", "d", "2">>
K_field3 ==
    <<"f", "i", "e", "l", "d", "3">>
Fv123 ==
    <<"1", "2", "3">>
Fv123p45 ==
    <<"1", "2", "3", ".", "4", "5">>
FvInvalid ==
    <<"i", "n", "v", "a", "l", "i", "d">>
FvEmpty ==
    <<>>
FvSpace ==
    <<" ">>
FvPadded42 ==
    <<" ", "4", "2", " ">>
FvMinus7 ==
    <<"-", "7">>
Fv1e3 ==
    <<"1", "e", "3">>
Fv1000 ==
    <<"1", "_", "0", "0", "0">>

FieldValues ==
    {None} \cup
    {StrV(s) : s \in {Fv123, Fv123p45, FvInvalid, FvEmpty, FvSpace, FvPadded42,
                      FvMinus7, Fv1e3, Fv1000}}

FieldRecords ==
    {[k \in {K_field1, K_field2} |-> IF k = K_field1 THEN v1 ELSE v2] :
        v1 \in FieldValues, v2 \in FieldValues}

FieldLists ==
    {{}, {K_field1}, {K_field2, K_field3}, {K_field1, K_field2, K_field3}}

TargetTypes == {"int", "float"}

\* convert_fields applied to a record, a set of field names and a type
CallConvertFields(rec, fields, target_type) ==
    /\ pc = "calls"
    /\ call' = [fn |-> "convert_fields", record |-> rec, fields |-> fields,
                target_type |-> target_type,
                result |-> convert_fields(rec, fields, target_type)]
    /\ UNCHANGED <<config, now, stream_state, resume_state, pc, start_date,
                   date_limit, line_id, fieldnames, reader, record, emitted, log>>

\* the helpers are static: no stream is running while they are called
InitCalls ==
    /\ config = None
    /\ now = BaseDate(None) + 1
    /\ stream_state = None
    /\ resume_state = None
    /\ pc = "calls"
    /\ start_date = NoDate
    /\ date_limit = NoDate
    /\ line_id = 0
    /\ fieldnames = <<>>
    /\ reader = <<>>
    /\ record = None
    /\ emitted = <<>>
    /\ log = <<>>
    /\ call = NoCall

NextCalls ==
    \/ \E date_str \in DateStrings, date_format \in DateFormats :
          CallConvertDate(date_str, date_format)
    \/ \E date \in CalendarDates, date_format \in WrittenFormats :
          CallConvertWritten(date, date_format)
    \/ \E rec \in FieldRecords, fields \in FieldLists, target_type \in TargetTypes :
          CallConvertFields(rec, fields, target_type)

SpecCalls == InitCalls /\ [][NextCalls]_vars

\* ------------------------------------------------- vocabulary of the claims

IsDownload(e) == e.op = "download_data"
IsUpdate(e) == e.op = "update_stream_state"
Downloads == SelectSeq(log, IsDownload)
Updates == SelectSeq(log, IsUpdate)

\* a fetch that ended in Failure: an error that is neither "no data" nor "not
\* ready"
IsFailure(e) ==
    /\ IsDownload(e)
    /\ \/ e.outcome = "Exception"
       \/ e.outcome = "APIError" /\ e.value.kind = "other"

\* the footer marker of the specification's example
TotalRows ==
    <<"T", "o", "t", "a", "l", "_", "R", "o", "w", "s">>
SentinelMarkers == skip_markers \cup {TotalRows}

\* the rows of a payload after its header line
RowsOf(all_data) == DictReaderRows(FileLines(AfterLine(StringIO(all_data))))

IsDataRow(row) == row[1] \notin SentinelMarkers

\* the data rows of a payload: the rows that are no footer or total row
DataRows(all_data) == SelectSeq(RowsOf(all_data), IsDataRow)

FirstOfRows(rows) == [i \in 1..Len(rows) |-> rows[i][1]]

\* a fetch classified Empty
IsEmpty(e) ==
    /\ IsDownload(e)
    /\ \/ e.outcome = "APIError" /\ e.value.kind = "no_data"
       \/ e.outcome = "return" /\ DataRows(e.value) = <<>>

\* the records emitted for the period of date d, in emission order
RecordsOf(d) ==
    LET OfPeriod(r) == r[K_api_report_date] = StrV(StrftimeYmd(d)) IN
    SelectSeq(emitted, OfPeriod)

\* the first field of each record of the period fetched by call e
FirstFields(e) ==
    LET fn == FieldNames(Strip(ReadLine(StringIO(e.value))))
        rs == RecordsOf(e.date)
    IN [i \in 1..Len(rs) |-> rs[i][fn[1]]]

\* a is a subsequence of b
RECURSIVE IsSubseq(_, _)
IsSubseq(a, b) ==
    IF a = <<>> THEN TRUE
    ELSE IF b = <<>> THEN FALSE
    ELSE IF Head(a) = Head(b) THEN IsSubseq(Tail(a), Tail(b))
    ELSE IsSubseq(a, Tail(b))

\* the period of call log[i] is over: its update_stream_state call is logged
PeriodOver(i) == i < Len(log)

\* the persisted state before call log[i]
RECURSIVE PersistedBefore(_)
PersistedBefore(i) ==
    IF i = 1 THEN resume_state
    ELSE IF IsUpdate(log[i - 1]) THEN log[i - 1].value
    ELSE PersistedBefore(i - 1)

\* ------------------------------------------------------------------ claims

\* C1: a run that starts with persisted state D passes D plus one day to its
\* first download_data call
C1_ResumesAfterPersistedState ==
    (resume_state.t = "str" /\ Downloads # <<>>)
        => Downloads[1].date = Strptime(resume_state.s, FmtYmd).ord + 1

\* C2: a fetch that ends in Failure ends the run as failed: no
\* update_stream_state call and no later fetch follow it, and the persisted
\* state is the one from before the period
C2_FailureIsFatal ==
    \A i \in 1..Len(log) :
        IsFailure(log[i]) =>
            /\ i = Len(log)
            /\ pc = "raised"
            /\ stream_state = PersistedBefore(i)

\* C3: a period is fetched again only after a Failure of its previous attempt,
\* and at most 5 times in all; after Data, Empty or NotReady it is not fetched
\* again
C3_AttemptsPerPeriod ==
    /\ \A i, j \in 1..Len(Downloads) :
          (i < j /\ Downloads[i].date = Downloads[j].date)
              => /\ IsFailure(Downloads[i])
                 /\ \A k \in i..j : Downloads[k].date = Downloads[i].date
    /\ \A i \in 1..Len(Downloads) :
          Cardinality({j \in 1..Len(Downloads) :
                          Downloads[j].date = Downloads[i].date}) <= 5

\* C3 witness: a run of three fetches, among them a Failure and a report with
\* data, each followed by a further fetch
C3_Witness ==
    /\ Len(Downloads) >= 3
    /\ \E i \in 1..(Len(Downloads) - 1) : IsFailure(Downloads[i])
    /\ \E i \in 1..(Len(Downloads) - 1) :
          /\ Downloads[i].outcome = "return"
          /\ DataRows(Downloads[i].value) # <<>>

C5_LineIdsSequential ==
    \A i \in 1..Len(emitted) : emitted[i][K_line_id] = IntV(i)

\* C6: a finished period has one record per data row of its payload, in input
\* order
C6_OneRecordPerDataRow ==
    \A i \in 1..Len(log) :
        (IsDownload(log[i]) /\ log[i].outcome = "return" /\ PeriodOver(i))
            => /\ Len(RecordsOf(log[i].date)) = Len(DataRows(log[i].value))
               /\ FirstFields(log[i])
                    = [k \in 1..Len(DataRows(log[i].value)) |->
                         StrV(DataRows(log[i].value)[k][1])]

\* C7: no record comes from a row whose first field is a sentinel marker, and
\* the other rows are all emitted, in their input order
C7_SentinelRowsExcluded ==
    \A i \in 1..Len(log) :
        (IsDownload(log[i]) /\ log[i].outcome = "return" /\ PeriodOver(i))
            => LET ff == FirstFields(log[i])
                   want == FirstOfRows(DataRows(log[i].value))
               IN /\ \A k \in 1..Len(ff) :
                        ff[k].t = "str" => ff[k].s \notin SentinelMarkers
                  /\ IsSubseq([k \in 1..Len(want) |-> StrV(want[k])], ff)

\* C8: every period passed to download_data is at or before the clock of the
\* run's start minus the safety lag of two days
C8_WithinSafetyLag ==
    \A i \in 1..Len(log) :
        IsDownload(log[i]) => log[i].date <= now - SafetyLagDays

\* C8 witness: the run has fetched three periods, the last of them the period
\* on the boundary
C8_Witness ==
    /\ Len(Downloads) >= 3
    /\ Downloads[Len(Downloads)].date = now - SafetyLagDays

C10_NumericFieldsCoerced ==
    \A i \in 1..Len(emitted) :
        \A k \in (IntegerFields \cup NumberFields) \cap DOMAIN emitted[i] :
            emitted[i][k].t \in {"int", "float", "none"}

\* C11: convert_date returns null, without raising, for the empty string, for a
\* whitespace-only string, and for every non-empty string that does not parse
\* under the given format, for any format.
\* Violated: under a format that repeats a directive strptime fails with
\* re.error, which is not a ValueError and leaves convert_date.
C11_UnparsableGivesNull ==
    (/\ call.fn = "convert_date"
     /\ call.date_str.t = "str"
     /\ \/ Strip(call.date_str.s) = <<>>
        \/ Strptime(Strip(call.date_str.s), call.date_format).t # "datetime")
    => call.result = None

ExpectedIso(date) ==
    ZeroPad(date.y, 4) \o <<"-">> \o ZeroPad(date.m, 2) \o <<"-">>
        \o ZeroPad(date.d, 2)
        \o <<"T", "0", "0", ":", "0", "0", ":", "0", "0">>

DatePart(iso) == SubSeq(iso, 1, 10)

\* C12: for every valid calendar date d written in a format f, convert_date
\* returns the ISO-8601 string 'YYYY-MM-DDT00:00:00' whose year, month and day
\* are those of d, and parsing that result's date part back gives d.
C12_DateRoundTrip ==
    (call.fn = "convert_date" /\ call.date.t # "none")
    => /\ call.result = StrV(ExpectedIso(call.date))
       /\ Strptime(DatePart(call.result.s), FmtYmd)
             = DateTime(ToOrdinal(call.date.y, call.date.m, call.date.d))

C12_Witness ==
    /\ call.fn = "convert_date"
    /\ call.date.t # "none"
    /\ call.date_format = FmtDmY
    /\ call.date = Date(2024, 2, 29)
    /\ call.result.t = "str"

\* what int and float make of each string of FieldValues, stated case by case;
\* null where the string is empty, whitespace only or not a number of the type
ParsedNumber(target_type, s) ==
    IF target_type = "int"
    THEN CASE s = Fv123 -> IntV(123)
           [] s = FvPadded42 -> IntV(42)
           [] s = FvMinus7 -> IntV(0 - 7)
           [] s = Fv1000 -> IntV(1000)
           [] OTHER -> None
    ELSE CASE s = Fv123 -> FloatV(123, 0)
           [] s = Fv123p45 -> FloatV(12345, 0 - 2)
           [] s = FvPadded42 -> FloatV(42, 0)
           [] s = FvMinus7 -> FloatV(0 - 7, 0)
           [] s = Fv1e3 -> FloatV(1, 3)
           [] s = Fv1000 -> FloatV(1, 3)
           [] OTHER -> None

IsValue(v) == v.t \in {"none", "str", "int", "float"}

\* C13: convert_fields never raises for string or null inputs; afterwards each
\* listed field present in the record holds the parsed number when its value
\* was parsable as target_type, null when it was an empty, whitespace-only or
\* otherwise unparsable string, null when it was null; every field not in the
\* list is left unchanged.
C13_FieldsCoerced ==
    call.fn = "convert_fields"
    => /\ DOMAIN call.result = DOMAIN call.record
       /\ \A k \in DOMAIN call.record :
            /\ IsValue(call.result[k])
            /\ k \notin call.fields => call.result[k] = call.record[k]
            /\ (k \in call.fields /\ call.record[k].t = "none")
                  => call.result[k] = None
            /\ (k \in call.fields /\ call.record[k].t = "str")
                  => call.result[k]
                        = ParsedNumber(call.target_type, call.record[k].s)

C13_Witness ==
    /\ call.fn = "convert_fields"
    /\ call.target_type = "float"
    /\ call.fields = {K_field1, K_field2, K_field3}
    /\ call.record[K_field1] = StrV(Fv123p45)
    /\ call.record[K_field2] = StrV(FvInvalid)
    /\ call.result[K_field1] = FloatV(12345, 0 - 2)
    /\ call.result[K_field2] = None

\* a header token trimmed, lowercased, spaces and hyphens made underscores
ClaimedFieldName(token) ==
    StrReplace(StrReplace(StrLower(Strip(token)), " ", "_"), "-", "_")

\* the tab-separated tokens of a payload's header line
HeaderTokens(all_data) == Split(Strip(ReadLine(StringIO(all_data))), "\t")

LastDownload == Downloads[Len(Downloads)]

\* C14: the field names get_records derives from a payload's header line are,
\* for each tab-separated header token in order, the token trimmed, lowercased,
\* and with every space and every hyphen replaced by an underscore.
\* Violated: the code replaces spaces only.
C14_HeaderNormalised ==
    pc \in {"reader", "yielded"}
    => LET tokens == HeaderTokens(LastDownload.value) IN
       fieldnames = [i \in 1..Len(tokens) |-> ClaimedFieldName(tokens[i])]

RECURSIVE MaxLen(_)
MaxLen(S) ==
    IF S = {} THEN 0
    ELSE LET x == CHOOSE y \in S : TRUE
             rest == MaxLen(S \ {x})
         IN IF Len(x) > rest THEN Len(x) ELSE rest

\* the steps a period takes at most: the fetch, two yields per row, the end
PeriodSteps == 2 * MaxLen({RowsOf(all_data) : all_data \in Payloads}) + 2

PeriodsLeft(date) ==
    IF date > date_limit THEN 0 ELSE date_limit - date + 1

\* a bound on the steps a run has left, by the position it is at
Rank ==
    CASE pc = "idle" ->
           LET sd == get_start_date(config) IN
           IF sd.t = "datetime" /\ sd.ord <= now - SafetyLagDays
           THEN (now - SafetyLagDays - sd.ord + 1) * PeriodSteps + 2
           ELSE 2
      [] pc = "while" -> PeriodsLeft(start_date) * PeriodSteps + 1
      [] pc = "reader" ->
           (PeriodsLeft(start_date) - 1) * PeriodSteps + 2 * Len(reader) + 2
      [] pc = "yielded" ->
           (PeriodsLeft(start_date) - 1) * PeriodSteps + 2 * Len(reader) + 3
      [] OTHER -> 0

Terminated == pc \in {"done", "raised"}

StartDateParses == get_start_date(config).t = "datetime"

InitialPeriod == get_start_date(config).ord

\* C16: within one run the periods passed to download_data start at the
\* initial period and each next one is exactly one day after the previous
\* one, so none is requested twice and none between the first and the last is
\* skipped, whether a period yielded data or raised an APIError.
C16_PeriodsConsecutive ==
    LET ds == Downloads IN
    /\ ds # <<>> => ds[1].date = InitialPeriod
    /\ \A i \in 1..(Len(ds) - 1) : ds[i + 1].date = ds[i].date + 1
    /\ \A i, j \in 1..Len(ds) : i < j => ds[i].date < ds[j].date
    /\ \A i \in 1..Len(ds) :
          \A d \in ds[1].date..ds[i].date : \E j \in 1..i : ds[j].date = d

\* C16 witness: a period that raised an APIError and a period that yielded
\* records, both followed by the request of a further period
C16_Witness ==
    /\ Len(Downloads) >= 3
    /\ \E i \in 1..(Len(Downloads) - 1) : Downloads[i].outcome = "APIError"
    /\ \E i \in 1..(Len(Downloads) - 1) :
          /\ Downloads[i].outcome = "return"
          /\ RecordsOf(Downloads[i].date) # <<>>

\* the period of call e was aborted by an error that is no APIError, raised
\* by download_data or while its return value was read
IsAbort(e) == IsDownload(e) /\ e.outcome \in {"Exception", "TypeError"}

\* C17: when processing of a period aborts with an error that is not an
\* APIError, the error leaves get_records, update_stream_state is not called
\* for that period, the persisted state keeps the value written after the
\* previous completed period, and the records yielded for earlier periods are
\* unaffected.
C17_AbortKeepsState ==
    /\ [](\A i \in 1..Len(log) :
             IsAbort(log[i]) =>
                /\ pc = "raised"
                /\ i = Len(log)
                /\ \A j \in 1..Len(log) :
                      IsUpdate(log[j]) => log[j].date <= log[i].date
                /\ stream_state = PersistedBefore(i)
                /\ Updates # <<>> => stream_state = Updates[Len(Updates)].value
                /\ RecordsOf(log[i].date) = <<>>)
    /\ [][pc' = "raised"
            => /\ IsAbort(log'[Len(log')])
               /\ emitted' = emitted
               /\ stream_state' = stream_state
               /\ Updates' = Updates]_vars

\* C17 witness: a run left by the TypeError of a period's payload after
\* earlier periods yielded records and wrote the state
C17_Witness ==
    /\ pc = "raised"
    /\ log[Len(log)].outcome = "TypeError"
    /\ Len(Updates) >= 2
    /\ emitted # <<>>
    /\ stream_state = Updates[Len(Updates)].value

\* the configured start_date is a string that does not parse under '%Y-%m-%d'
StartDateUnparsable ==
    /\ config.t = "str"
    /\ Strptime(config.s, FmtYmd).t # "datetime"

\* C18: if the configured start_date does not parse under '%Y-%m-%d',
\* get_start_date returns null and get_records ends immediately without
\* raising: download_data is never called, no record is yielded, and the
\* stream state is left unchanged.
C18_UnparsableStartEndsRun ==
    /\ [](StartDateUnparsable
            => /\ get_start_date(config) = None
               /\ pc \in {"idle", "done"}
               /\ log = <<>>
               /\ emitted = <<>>
               /\ stream_state = resume_state)
    /\ [][(StartDateUnparsable /\ pc = "idle") => pc' = "done"]_vars

\* C18 witness: the run of a stream configured with a full timestamp has
\* ended, with a state persisted by an earlier run still in place
C18_Witness ==
    /\ config = StrV(CfgTimestamp)
    /\ pc = "done"
    /\ log = <<>>
    /\ stream_state # None

====
